---- MODULE Spec2Model ----
(***************************************************************************)
(* Merkle-Patricia-Trie proofs of erigon's trie package: Trie.Prove, the   *)
(* node codec (decodeNode, decodeShort, decodeFull, decodeRef), proofMap,  *)
(* verifyProof and the record cross-checkers VerifyAccountProofByHash and  *)
(* VerifyStorageProofByHash.                                               *)
(*                                                                         *)
(* Byte strings.  A byte string is one of                                  *)
(*   Raw(s)        the bytes s, a sequence of numbers 0..255               *)
(*   Keccak256(b)  the 32-byte digest of the byte string b, kept as a pair *)
(*                 of numbers computed from the bytes of b                 *)
(*   Enc(items)    the concatenation of the RLP encodings of items         *)
(* An RLP item is a string item (with a byte string as content) or a list  *)
(* item (with items as content); its encoded size is computed as RLP       *)
(* computes it, so that the 32-byte embedding threshold is the real one.   *)
(* The digest function is collision-free on the byte strings of a state:   *)
(* DigestsDistinct states it, and is an invariant of Spec.                 *)
(***************************************************************************)
EXTENDS Integers, Sequences, FiniteSets, TLC

\* ------------------------------------------------------------------ bounds

\* The most keys a trie holds.
MaxKeys == 3
\* The largest fromLevel handed to Prove.
MaxFromLevel == 1
\* The most entries of a proof list a caller makes up.
MaxSubmit == 2

\* --------------------------------------------------------- program constants

\* length.Hash: the size of a digest, and the embedding threshold of decodeRef.
HashLength == 32
\* The key terminator nibble.
Terminator == 16

\* ------------------------------------------------------------- byte strings

\* The sequence s with its entries computed (once).
Computed(s) == <<>> \o s

Raw(s) == [b |-> "raw", raw |-> s]
Enc(items) == [b |-> "rlp", items |-> items]

RlpString(val) == [kind |-> "String", val |-> val]
RlpList(elems) == [kind |-> "List", elems |-> elems]

EmptyBytes == Raw(<<>>)
EmptyString == RlpString(EmptyBytes)

\* The size of an RLP header for a payload of n bytes.
HeaderLen(n) == IF n <= 55 THEN 1 ELSE IF n < 256 THEN 2 ELSE 3

RECURSIVE BytesLen(_)
RECURSIVE ItemLen(_)
RECURSIVE ItemsLen(_)
\* len(x) of a byte string.
BytesLen(x) ==
    CASE x.b = "raw" -> Len(x.raw)
      [] x.b = "keccak" -> HashLength
      [] OTHER -> ItemsLen(x.items)

\* Whether the byte string is one byte below 0x80, which is its own encoding.
SingleByte(x) == x.b = "raw" /\ Len(x.raw) = 1 /\ x.raw[1] < 128

\* The size of the encoding of one item.
ItemLen(it) ==
    IF it.kind = "String"
    THEN IF SingleByte(it.val) THEN 1
         ELSE LET n == BytesLen(it.val) IN HeaderLen(n) + n
    ELSE LET n == ItemsLen(it.elems) IN HeaderLen(n) + n

ItemsLen(items) ==
    IF items = <<>> THEN 0 ELSE ItemLen(Head(items)) + ItemsLen(Tail(items))

\* The header of an RLP string (base 128) or list (base 192) of n bytes.
RlpHeader(base, n) == IF n <= 55 THEN <<base + n>> ELSE <<base + 56, n>>

\* The bytes of a byte string; the 32 bytes of a digest are not known and
\* stand as the digest's two numbers, moved above the bytes.
RECURSIVE Flatten(_)
RECURSIVE FlattenItem(_)
RECURSIVE FlattenItems(_)
Flatten(x) ==
    CASE x.b = "raw" -> x.raw
      [] x.b = "keccak" -> <<256 + x.id[1], 256 + x.id[2]>>
      [] OTHER -> FlattenItems(x.items)

FlattenItem(it) ==
    IF it.kind = "String"
    THEN IF SingleByte(it.val) THEN it.val.raw
         ELSE RlpHeader(128, BytesLen(it.val)) \o Flatten(it.val)
    ELSE RlpHeader(192, ItemsLen(it.elems)) \o FlattenItems(it.elems)

FlattenItems(items) ==
    IF items = <<>> THEN <<>>
    ELSE FlattenItem(Head(items)) \o FlattenItems(Tail(items))

\* x[0] of a non-empty byte string.
FirstByte(x) == Flatten(x)[1]

\* Whether a byte string holds no digest, so that its bytes are all known.
DigestFree(x) == LET s == Flatten(x) IN \A i \in 1..Len(s) : s[i] < 256

\* bytes.Equal: the two byte strings hold the same bytes.
BytesEqual(x, y) == Flatten(x) = Flatten(y)

\* A number computed from the bytes s, below the modulus m.
RECURSIVE Poly(_, _, _, _)
Poly(s, i, m, h) ==
    IF i > Len(s) THEN h ELSE Poly(s, i + 1, m, (h * 257 + s[i] + 1) % m)

\* crypto.Keccak256: the digest of the byte string x.
Keccak256(x) ==
    LET s == Flatten(x)
    IN  [b |-> "keccak", id |-> <<Poly(s, 1, 4194301, 7), Poly(s, 1, 4194287, 11)>>]

\* crypto.Keccak256Hash.
Keccak256Hash(x) == Keccak256(x)
\* common.Hash{}: the zero digest.
ZeroHash == Raw(Computed([i \in 1..HashLength |-> 0]))
\* EmptyRoot: the root of the empty trie, the digest of the encoding 0x80.
EmptyRoot == Keccak256(Enc(<<EmptyString>>))
\* The code hash of an account without code: the digest of the empty string.
EmptyCodeHash == Keccak256(EmptyBytes)

\* ------------------------------------------------------------ the rlp codec

\* rlp.Split: the first item of buf and the rest, or an error on no bytes.
Split(buf) ==
    IF buf.b # "rlp" \/ buf.items = <<>>
    THEN [err |-> TRUE]
    ELSE [err |-> FALSE, kind |-> Head(buf.items).kind,
          item |-> Head(buf.items), rest |-> Enc(Tail(buf.items))]

\* rlp.SplitString: the content of a leading string item.
SplitString(buf) ==
    LET s == Split(buf)
    IN  IF s.err \/ s.kind = "List" THEN [err |-> TRUE]
        ELSE [err |-> FALSE, val |-> s.item.val, rest |-> s.rest]

\* rlp.SplitList: the content of a leading list item.
SplitList(buf) ==
    LET s == Split(buf)
    IN  IF s.err \/ s.kind # "List" THEN [err |-> TRUE]
        ELSE [err |-> FALSE, elems |-> Enc(s.item.elems), rest |-> s.rest]

\* rlp.CountValues: the number of items in a list's content.
CountValues(elems) == Len(elems.items)

\* ------------------------------------------------------------------- keys

Nibbles(str) ==
    Computed([i \in 1..(2 * Len(str)) |->
                 IF i % 2 = 1 THEN str[(i + 1) \div 2] \div 16 ELSE str[i \div 2] % 16])

\* keybytesToHex: two nibbles a byte, then the terminator.
keybytesToHex(str) == Nibbles(str) \o <<Terminator>>

hasTerm(hex) == Len(hex) > 0 /\ hex[Len(hex)] = Terminator

\* hexToCompact: the compact (hex-prefix) encoding of a nibble path.
hexToCompact(hex) ==
    LET h == IF hasTerm(hex) THEN SubSeq(hex, 1, Len(hex) - 1) ELSE hex
        odd == Len(h) % 2 = 1
        flag == (IF hasTerm(hex) THEN 32 ELSE 0) + (IF odd THEN 16 + h[1] ELSE 0)
        rest == IF odd THEN Tail(h) ELSE h
    IN  <<flag>> \o [i \in 1..(Len(rest) \div 2) |-> rest[2 * i - 1] * 16 + rest[2 * i]]

\* CompactToKeybytes(kbuf).ToHex(): the nibble path of a compact key, with
\* the terminator when the key is flagged terminating.
CompactToHex(compact) ==
    IF compact = <<>> THEN <<>>
    ELSE LET base == keybytesToHex(compact)
             cut == IF base[1] < 2 THEN SubSeq(base, 1, Len(base) - 1) ELSE base
             chop == 2 - (cut[1] % 2)
         IN  SubSeq(cut, chop + 1, Len(cut))

\* Keybytes.Terminating of a compact key.
CompactTerminating(compact) == compact # <<>> /\ (compact[1] \div 32) % 2 = 1

\* ------------------------------------------------------------------ nodes

NilNode == [t |-> "nil"]
ShortNode(Key, Val) == [t |-> "short", Key |-> Key, Val |-> Val]
DuoNode(i1, child1, i2, child2) ==
    [t |-> "duo", i1 |-> i1, child1 |-> child1, i2 |-> i2, child2 |-> child2]
\* Children[i + 1] is the child for nibble i; Children[17] is the value slot.
FullNode(Children) == [t |-> "full", Children |-> Children]
ValueNode(v) == [t |-> "value", v |-> v]
HashNode(hash) == [t |-> "hash", hash |-> hash]
AccountNode(Storage) == [t |-> "account", Storage |-> Storage]

\* ------------------------------------------------ the live trie (Trie.Update)

\* The length of the longest common prefix of the paths of ps.
RECURSIVE PrefixLen(_, _)
PrefixLen(paths, n) ==
    IF /\ \A p \in paths : Len(p) > n
       /\ \A p, q \in paths : p[n + 1] = q[n + 1]
    THEN PrefixLen(paths, n + 1)
    ELSE n

\* The trie over a set of <<path, value>> pairs, the paths ending in the
\* terminator: a leaf for one pair, an extension over a common prefix, and a
\* branch where the paths part (a DuoNode for two children, a FullNode for
\* more).
RECURSIVE BuildNode(_)
BuildNode(ps) ==
    IF ps = {} THEN NilNode
    ELSE IF Cardinality(ps) = 1
    THEN LET p == CHOOSE q \in ps : TRUE IN ShortNode(p[1], ValueNode(p[2]))
    ELSE LET n == PrefixLen({p[1] : p \in ps}, 0)
             one == CHOOSE q \in ps : TRUE
             nibs == {p[1][1] : p \in ps}
             below(i) == BuildNode({<<Tail(p[1]), p[2]>> : p \in {q \in ps : q[1][1] = i}})
         IN  IF n > 0
             THEN ShortNode(SubSeq(one[1], 1, n),
                            BuildNode({<<SubSeq(p[1], n + 1, Len(p[1])), p[2]>> : p \in ps}))
             ELSE IF Cardinality(nibs) = 2
             THEN LET i1 == CHOOSE i \in nibs : \A j \in nibs : i <= j
                      i2 == CHOOSE i \in nibs : i # i1
                  IN  DuoNode(i1, below(i1), i2, below(i2))
             ELSE FullNode(Computed([i \in 1..17 |->
                               IF (i - 1) \in nibs THEN below(i - 1) ELSE NilNode]))

\* The trie holding the key/value pairs of the function kv.
TrieOf(kv) == BuildNode({<<keybytesToHex(k), kv[k]>> : k \in DOMAIN kv})

\* Whether one key is a prefix of the other.
PrefixRelated(k1, k2) ==
    \/ Len(k1) <= Len(k2) /\ SubSeq(k2, 1, Len(k1)) = k1
    \/ Len(k2) <= Len(k1) /\ SubSeq(k1, 1, Len(k2)) = k2

\* --------------------------------------------- the encoder (hasher.hashChildren)

\* hashChildren: the encoding of a node, each child replaced by its digest
\* when the child's encoding has 32 bytes or more and embedded otherwise.
RECURSIVE hashChildren(_)
hashChild(child) ==
    IF child = NilNode THEN EmptyString
    ELSE IF child.t = "value" THEN RlpString(child.v)
    ELSE LET enc == hashChildren(child)
         IN  IF ItemLen(enc) >= HashLength
             THEN RlpString(Keccak256Hash(Enc(<<enc>>)))
             ELSE enc

hashChildren(n) ==
    CASE n.t = "short" ->
            RlpList(<<RlpString(Raw(hexToCompact(n.Key))), hashChild(n.Val)>>)
      [] n.t = "duo" ->
            RlpList(Computed([i \in 1..17 |->
                        IF i - 1 = n.i1 THEN hashChild(n.child1)
                        ELSE IF i - 1 = n.i2 THEN hashChild(n.child2)
                        ELSE EmptyString]))
      [] n.t = "full" ->
            RlpList(Computed([i \in 1..17 |-> hashChild(n.Children[i])]))

\* Trie.Hash: the root digest, EmptyRoot for the empty trie.
RootHash(root) ==
    IF root = NilNode THEN EmptyRoot
    ELSE Keccak256Hash(Enc(<<hashChildren(root)>>))

\* ------------------------------------------------------------------- Prove

\* One round of Prove's loop and the rounds after it: tn the current node,
\* key the nibbles left, proof the entries collected.
RECURSIVE ProveLoop(_, _, _, _, _)
ProveLoop(tn, key, fromLevel, storage, proof) ==
    IF ~(Len(key) > 0 /\ tn # NilNode)
    THEN [err |-> FALSE, proof |-> proof]
    ELSE LET added == IF fromLevel = 0
                      THEN Append(proof, Enc(<<hashChildren(tn)>>))
                      ELSE proof
             level == IF fromLevel > 0 THEN fromLevel - 1 ELSE fromLevel
         IN  CASE tn.t = "short" ->
                    LET nKey == IF tn.Key[Len(tn.Key)] = Terminator
                                THEN SubSeq(tn.Key, 1, Len(tn.Key) - 1)
                                ELSE tn.Key
                    IN  IF Len(key) < Len(nKey) \/ nKey # SubSeq(key, 1, Len(nKey))
                        THEN ProveLoop(NilNode, key, level, storage, added)
                        ELSE ProveLoop(tn.Val, SubSeq(key, Len(nKey) + 1, Len(key)),
                                       level, storage, added)
               [] tn.t = "duo" ->
                    IF key[1] = tn.i1
                    THEN ProveLoop(tn.child1, Tail(key), level, storage, added)
                    ELSE IF key[1] = tn.i2
                    THEN ProveLoop(tn.child2, Tail(key), level, storage, added)
                    ELSE ProveLoop(NilNode, key, level, storage, added)
               [] tn.t = "full" ->
                    ProveLoop(tn.Children[key[1] + 1], Tail(key), level, storage, added)
               [] tn.t = "account" ->
                    ProveLoop(IF storage THEN tn.Storage ELSE NilNode,
                              key, fromLevel, storage, proof)
               [] tn.t = "value" ->
                    ProveLoop(NilNode, key, fromLevel, storage, proof)
               [] tn.t = "hash" ->
                    [err |-> TRUE, proof |-> <<>>]

\* Trie.Prove: the nodes on the path of key, the root first.
Prove(root, key, fromLevel, storage) ==
    LET hex == keybytesToHex(key)
    IN  ProveLoop(root, SubSeq(hex, 1, Len(hex) - 1), fromLevel, storage, <<>>)

\* ----------------------------------------------------------- the node codec

RECURSIVE decodeNode(_)
RECURSIVE decodeRef(_)

\* decodeRef: a child reference: an embedded node of fewer than 32 bytes, nil
\* for the empty string, a HashNode for a 32-byte string.
decodeRef(buf) ==
    LET s == Split(buf)
    IN  IF s.err THEN [err |-> TRUE]
        ELSE IF s.kind = "List"
        THEN IF ItemLen(s.item) >= HashLength THEN [err |-> TRUE]
             ELSE LET n == decodeNode(buf)
                  IN  IF n.err THEN [err |-> TRUE]
                      ELSE [err |-> FALSE, node |-> n.node, rest |-> s.rest]
        ELSE IF BytesLen(s.item.val) = 0
        THEN [err |-> FALSE, node |-> NilNode, rest |-> s.rest]
        ELSE IF BytesLen(s.item.val) = 32
        THEN [err |-> FALSE, node |-> HashNode(s.item.val), rest |-> s.rest]
        ELSE [err |-> TRUE]

\* decodeFull: sixteen child references and the value slot.
decodeFull(elems) ==
    LET refs == Computed([i \in 1..16 |->
                    decodeRef(Enc(SubSeq(elems.items, i, Len(elems.items))))])
        ref(i) == refs[i]
        val == SplitString(Enc(SubSeq(elems.items, 17, Len(elems.items))))
    IN  IF \E i \in 1..16 : ref(i).err THEN [err |-> TRUE]
        ELSE IF val.err THEN [err |-> TRUE]
        ELSE [err |-> FALSE,
              node |-> FullNode(Computed([i \in 1..17 |->
                          IF i <= 16 THEN ref(i).node
                          ELSE IF BytesLen(val.val) > 0 THEN ValueNode(val.val)
                          ELSE NilNode]))]

\* decodeShort: a compact key and a value (terminating key) or a child
\* reference.
decodeShort(elems) ==
    LET k == SplitString(elems)
    IN  IF k.err \/ ~DigestFree(k.val) THEN [err |-> TRUE]
        ELSE LET kbuf == Flatten(k.val)
             IN  IF CompactTerminating(kbuf)
                 THEN LET v == SplitString(k.rest)
                      IN  IF v.err THEN [err |-> TRUE]
                          ELSE [err |-> FALSE,
                                node |-> ShortNode(CompactToHex(kbuf), ValueNode(v.val))]
                 ELSE LET r == decodeRef(k.rest)
                      IN  IF r.err THEN [err |-> TRUE]
                          ELSE [err |-> FALSE,
                                node |-> ShortNode(CompactToHex(kbuf), r.node)]

\* decodeNode: a list of two items is a ShortNode, of seventeen a FullNode.
decodeNode(encoded) ==
    IF BytesLen(encoded) = 0 THEN [err |-> TRUE]
    ELSE LET l == SplitList(encoded)
         IN  IF l.err THEN [err |-> TRUE]
             ELSE IF CountValues(l.elems) = 2 THEN decodeShort(l.elems)
             ELSE IF CountValues(l.elems) = 17 THEN decodeFull(l.elems)
             ELSE [err |-> TRUE]

\* ---------------------------------------------------- proofMap, verifyProof

\* The results of verifyProof: a value, absence (nil, nil) or an error.
NoResult == [kind |-> "none"]
Value(v) == [kind |-> "value", value |-> v]
Absent == [kind |-> "absent"]
Error(e) == [kind |-> "error", err |-> e]

ErrMissingHash == "missing hash"
ErrOutOfOrder == "proof elements present but not in expected order"
ErrUnused == "not all proof elements were used"
ErrFullNodeValue == "full nodes should not have values"
ErrShortHex == "len(shortHex) must be leq len(key)"
ErrValueKey == "value node should have zero length remaining in key"
ErrUnexpectedType == "unexpected type"
ErrProofMap == "could not construct proofMap"

\* The digests of the entries of a list.
Digests(proof) == Computed([i \in 1..Len(proof) |-> Keccak256Hash(proof[i])])

\* The index (from 0) of the last entry with digest h in a list with the
\* digests hs: the entry a map assignment in list order leaves.
LastIndex(hs, h) ==
    (CHOOSE i \in 1..Len(hs) : hs[i] = h /\ \A j \in (i + 1)..Len(hs) : hs[j] # h) - 1

\* proofMap: res maps each entry's digest to its decoded node, raw to its
\* index (and to its bytes, which only an error message reads and the model
\* leaves out); an entry that does not decode is an error.
proofMap(proof) ==
    LET hs == Digests(proof)
        hashes == {hs[i] : i \in 1..Len(proof)}
        nodes == Computed([i \in 1..Len(proof) |-> decodeNode(proof[i])])
    IN  IF \E i \in 1..Len(proof) : nodes[i].err
        THEN [err |-> TRUE]
        ELSE [err |-> FALSE,
              res |-> [h \in hashes |-> nodes[LastIndex(hs, h) + 1].node],
              raw |-> [h \in hashes |-> [index |-> LastIndex(hs, h)]]]

\* The locals of verifyProof's loop after one round: ret is NoResult while
\* the loop goes on.
Round(node, key, nextIndex, used, ret) ==
    [node |-> node, key |-> key, nextIndex |-> nextIndex, used |-> used, ret |-> ret]

\* case *FullNode
StepFullNode(node, key, nextIndex, used, proofs) ==
    IF Len(key) = 0
    THEN Round(node, key, nextIndex, used, Error(ErrFullNodeValue))
    ELSE LET child == node.Children[key[1] + 1]
         IN  Round(child, Tail(key), nextIndex, used,
                   IF child = NilNode THEN Absent ELSE NoResult)

\* case *ShortNode, the loop not moving on to the node's child.
StepShortNodeStay(node, key, nextIndex, used, proofs) ==
    LET shortHex == node.Key
    IN  IF Len(shortHex) > Len(key)
        THEN Round(node, key, nextIndex, used, Error(ErrShortHex))
        ELSE IF shortHex # SubSeq(key, 1, Len(shortHex))
        THEN Round(node, key, nextIndex, used, Absent)
        ELSE Round(node, SubSeq(key, Len(shortHex) + 1, Len(key)),
                   nextIndex, used, NoResult)

\* case *ShortNode
StepShortNode(node, key, nextIndex, used, proofs) ==
    LET shortHex == node.Key
    IN  IF Len(shortHex) > Len(key)
        THEN Round(node, key, nextIndex, used, Error(ErrShortHex))
        ELSE IF shortHex # SubSeq(key, 1, Len(shortHex))
        THEN Round(node, key, nextIndex, used, Absent)
        ELSE Round(node.Val, SubSeq(key, Len(shortHex) + 1, Len(key)),
                   nextIndex, used, NoResult)

\* case HashNode, the entry's index not compared with nextIndex.
StepHashNodeAnyIndex(node, key, nextIndex, used, proofs) ==
    LET h == node.hash
    IN  IF h \notin DOMAIN proofs
        THEN Round(node, key, nextIndex, used, Error(ErrMissingHash))
        ELSE IF h \notin DOMAIN used
        THEN Round(proofs[h], key, nextIndex, used, Error(ErrMissingHash))
        ELSE Round(proofs[h], key, nextIndex + 1,
                   [x \in DOMAIN used \ {h} |-> used[x]], NoResult)

\* case HashNode
StepHashNode(node, key, nextIndex, used, proofs) ==
    LET h == node.hash
    IN  IF h \notin DOMAIN proofs
        THEN Round(node, key, nextIndex, used, Error(ErrMissingHash))
        ELSE IF h \notin DOMAIN used
        THEN Round(proofs[h], key, nextIndex, used, Error(ErrMissingHash))
        ELSE IF nextIndex # used[h].index
        THEN Round(proofs[h], key, nextIndex, used, Error(ErrOutOfOrder))
        ELSE Round(proofs[h], key, nextIndex + 1,
                   [x \in DOMAIN used \ {h} |-> used[x]], NoResult)

\* case ValueNode, the entries left in used not looked at.
StepValueNodeAnyUsed(node, key, nextIndex, used, proofs) ==
    IF Len(key) # 0
    THEN Round(node, key, nextIndex, used, Error(ErrValueKey))
    ELSE Round(node, key, nextIndex, used, Value(node.v))

\* case ValueNode
StepValueNode(node, key, nextIndex, used, proofs) ==
    IF Len(key) # 0
    THEN Round(node, key, nextIndex, used, Error(ErrValueKey))
    ELSE IF DOMAIN used # {}
    THEN Round(node, key, nextIndex, used, Error(ErrUnused))
    ELSE Round(node, key, nextIndex, used, Value(node.v))

\* default, no node at all taken for absence.
StepDefaultAbsent(node, key, nextIndex, used, proofs) ==
    Round(node, key, nextIndex, used,
          IF node = NilNode THEN Absent ELSE Error(ErrUnexpectedType))

\* default
StepDefault(node, key, nextIndex, used, proofs) ==
    Round(node, key, nextIndex, used, Error(ErrUnexpectedType))

\* ------------------------------------------------- the record cross-checkers

OK == "ok"
ErrVerify == "could not verify proof"
ErrNonce == "account is not in state, but has non-zero nonce"
ErrBalance == "account is not in state, but has balance"
ErrStorageHash == "account is not in state, but has non-empty storage hash"
ErrCodeHash == "account is not in state, but has non-empty code hash"
ErrAccountBytes == "account bytes from proof do not match expected"
ErrEmptyNonZero == "empty storage root cannot have non-zero values"
ErrEmptyRootProof == "empty storage root should have RLP encoding of empty proof"
ErrZeroRootProof == "zero storage root should have empty proof"
ErrStorageValue == "storage value from proof does not match expected"

\* big.Int.Bytes / the bytes of a uint64 as rlp writes them: big-endian, no
\* leading zero (the numbers of the model are below 256).
MinBytes(n) == IF n = 0 THEN <<>> ELSE <<n>>

\* rlp.EncodeToBytes of the account's four fields.
AccountBytes(Nonce, Balance, StorageHash, CodeHash) ==
    Enc(<<RlpList(<<RlpString(Raw(MinBytes(Nonce))), RlpString(Raw(MinBytes(Balance))),
                    RlpString(StorageHash), RlpString(CodeHash)>>)>>)

AccProofResult(Nonce, Balance, StorageHash, CodeHash) ==
    [kind |-> "account", Nonce |-> Nonce, Balance |-> Balance,
     StorageHash |-> StorageHash, CodeHash |-> CodeHash]
StorProofResult(v) == [kind |-> "storage", Value |-> v]
NoClaim == [kind |-> "none"]

\* VerifyAccountProofByHash after verifyProof has returned value.
AccountCheck(value, claimed) ==
    IF value.kind = "error" THEN ErrVerify
    ELSE IF value.kind = "absent"
    THEN CASE claimed.Nonce # 0 -> ErrNonce
           [] claimed.Balance # 0 -> ErrBalance
           [] claimed.StorageHash # ZeroHash -> ErrStorageHash
           [] claimed.CodeHash # ZeroHash -> ErrCodeHash
           [] OTHER -> OK
    ELSE IF ~BytesEqual(AccountBytes(claimed.Nonce, claimed.Balance,
                                     claimed.StorageHash, claimed.CodeHash),
                        value.value)
    THEN ErrAccountBytes
    ELSE OK

\* VerifyStorageProofByHash for the empty root and the zero root, the two
\* roots' entry checks the other way round.
StorageEmptyCheckSwapped(storageRoot, entries, claimed) ==
    IF claimed.Value # 0 THEN ErrEmptyNonZero
    ELSE IF storageRoot # EmptyRoot
    THEN IF \E i \in 1..Len(entries) :
                BytesLen(entries[i]) # 1 \/ FirstByte(entries[i]) # 128
         THEN ErrEmptyRootProof
         ELSE OK
    ELSE IF \E i \in 1..Len(entries) : BytesLen(entries[i]) # 0
    THEN ErrZeroRootProof
    ELSE OK

\* VerifyStorageProofByHash for the empty root and the zero root.
StorageEmptyCheck(storageRoot, entries, claimed) ==
    IF claimed.Value # 0 THEN ErrEmptyNonZero
    ELSE IF storageRoot = EmptyRoot
    THEN IF \E i \in 1..Len(entries) :
                BytesLen(entries[i]) # 1 \/ FirstByte(entries[i]) # 128
         THEN ErrEmptyRootProof
         ELSE OK
    ELSE IF \E i \in 1..Len(entries) : BytesLen(entries[i]) # 0
    THEN ErrZeroRootProof
    ELSE OK

\* VerifyStorageProofByHash after verifyProof has returned value: expected
\* stays nil for an absent value, and bytes.Equal(nil, nil) holds.
StorageCheck(value, claimed) ==
    IF value.kind = "error" THEN ErrVerify
    ELSE IF value.kind = "absent" THEN OK
    ELSE IF ~BytesEqual(Enc(<<RlpString(Raw(MinBytes(claimed.Value)))>>), value.value)
    THEN ErrStorageValue
    ELSE OK

\* ---------------------------------------------------------------- inputs

ValA == Raw(<<97>>)
ValB == Raw(<<98>>)
\* The encoding of an account, 70 bytes: a value whose leaf is not embedded.
ValAccount == AccountBytes(1, 1, EmptyRoot, EmptyCodeHash)
Values == {ValA, ValB, ValAccount}

\* The keys stored and asked for.
Keys == {<<>>, <<1>>, <<2>>, <<3>>, <<1, 1>>, <<1, 17>>}
\* The size of the keys the ByHash checkers are handed: digests, cut down.
HashKeyLen == 1
HashKeys == {k \in Keys : Len(k) = HashKeyLen}

\* Entries a caller makes up: no bytes at all, the encoding 0x80 of the
\* empty string, a leaf with a value, and an extension with an empty path
\* fragment and no child.
ZeroLengthEntry == EmptyBytes
EmptyEncoding == Enc(<<EmptyString>>)
ForeignLeaf == Enc(<<hashChildren(ShortNode(<<0, 1, Terminator>>, ValueNode(ValA)))>>)
NilExtension == Enc(<<RlpList(<<RlpString(Raw(<<0>>)), EmptyString>>)>>)
SubmitEntries == {ZeroLengthEntry, EmptyEncoding, ForeignLeaf, NilExtension}

SeqsUpTo(S, n) == UNION {[1..m -> S] : m \in 0..n}

Claims ==
    {AccProofResult(n, b, s, c) :
        n \in {0, 1}, b \in {0, 1}, s \in {ZeroHash, EmptyRoot},
        c \in {ZeroHash, EmptyCodeHash}}
StorageClaims == {StorProofResult(v) : v \in {0, 97}}

\* ------------------------------------------------------------------- state

VARIABLES
    content,    \* the key/value pairs the trie holds
    RootNode,   \* Trie.RootNode
    pc,         \* "idle", "proved", "verify", "returned", "done"
    argKey,     \* the key handed to Prove and to the verifier
    fromLevel,  \* Prove's fromLevel
    proof,      \* the proof list
    origin,     \* where the list comes from: "prove", "submit", or how it was changed
    orig,       \* what verifyProof returned for the list before it was changed
    caller,     \* "verifyProof", "account", "storage"
    root,       \* the root digest handed to the verifier
    node,       \* verifyProof: node
    key,        \* verifyProof: key, the nibbles left
    nextIndex,  \* verifyProof: nextIndex
    proofs,     \* verifyProof: proofs
    used,       \* verifyProof: used
    ret,        \* what verifyProof returned
    consumed,   \* the list indices of the entries resolved, in order
    looked,     \* the list indices of the entries found by their digest
    steps,      \* the rounds of verifyProof's loop
    claim,      \* the record claimed to the cross-checker
    out         \* the cross-checker's result

vars == <<content, RootNode, pc, argKey, fromLevel, proof, origin, orig, caller, root,
          node, key, nextIndex, proofs, used, ret, consumed, looked, steps, claim, out>>

trieVars == <<content, RootNode>>
loopVars == <<node, key, nextIndex, proofs, used, ret, consumed, looked, steps>>

EmptyMap == [x \in {} |-> 0]

Init ==
    /\ content = EmptyMap
    /\ RootNode = NilNode
    /\ pc = "idle"
    /\ argKey = <<>>
    /\ fromLevel = 0
    /\ proof = <<>>
    /\ origin = "none"
    /\ orig = NoResult
    /\ caller = "none"
    /\ root = ZeroHash
    /\ node = NilNode
    /\ key = <<>>
    /\ nextIndex = 0
    /\ proofs = EmptyMap
    /\ used = EmptyMap
    /\ ret = NoResult
    /\ consumed = <<>>
    /\ looked = {}
    /\ steps = 0
    /\ claim = NoClaim
    /\ out = "none"

\* Trie.Update of a key the trie does not hold; the keys of a trie are of no
\* other key a prefix.
Update(k, v) ==
    /\ pc = "idle"
    /\ k \notin DOMAIN content
    /\ Cardinality(DOMAIN content) < MaxKeys
    /\ \A k2 \in DOMAIN content : ~PrefixRelated(k, k2)
    /\ content' = [x \in DOMAIN content \cup {k} |-> IF x = k THEN v ELSE content[x]]
    /\ RootNode' = TrieOf(content')
    /\ UNCHANGED <<pc, argKey, fromLevel, proof, origin, orig, caller, root, claim, out>>
    /\ UNCHANGED loopVars

\* Trie.Prove(k, level, storage).
ProveCall(k, level, storage) ==
    /\ pc = "idle"
    /\ LET r == Prove(RootNode, k, level, storage)
       IN  /\ ~r.err
           /\ proof' = r.proof
    /\ argKey' = k
    /\ fromLevel' = level
    /\ origin' = "prove"
    /\ pc' = "proved"
    /\ UNCHANGED <<orig, caller, root, claim, out>>
    /\ UNCHANGED trieVars
    /\ UNCHANGED loopVars

\* A caller hands over a list of its own making, for key k.
Submit(k) ==
    /\ pc = "idle"
    /\ content = EmptyMap
    /\ \E p \in SeqsUpTo(SubmitEntries, MaxSubmit) : proof' = p
    /\ argKey' = k
    /\ origin' = "submit"
    /\ pc' = "proved"
    /\ UNCHANGED <<fromLevel, orig, caller, root, claim, out>>
    /\ UNCHANGED trieVars
    /\ UNCHANGED loopVars

\* The roots a verifier is handed: the trie's, and for a list a caller made
\* up the digest of its first entry.
Roots ==
    {RootHash(RootNode)} \cup
    (IF origin = "submit" /\ proof # <<>> THEN {Keccak256Hash(proof[1])} ELSE {})

\* proofMap, then verifyProof up to its loop.
Enter(who, r) ==
    LET m == proofMap(proof)
    IN  /\ caller' = who
        /\ root' = r
        /\ IF m.err
           THEN /\ out' = ErrProofMap
                /\ pc' = "done"
                /\ UNCHANGED loopVars
           ELSE /\ node' = HashNode(r)
                /\ key' = keybytesToHex(argKey)
                /\ nextIndex' = 0
                /\ proofs' = m.res
                /\ used' = m.raw
                /\ pc' = "verify"
                /\ UNCHANGED <<out, ret, consumed, looked, steps>>
        /\ UNCHANGED <<argKey, fromLevel, proof, origin, orig, claim>>
        /\ UNCHANGED trieVars

\* proofMap and verifyProof on their own.
VerifyProofCall ==
    /\ pc = "proved"
    /\ \E r \in Roots : Enter("verifyProof", r)

\* VerifyAccountProofByHash(stateRoot, accountKey, proof).
VerifyAccountProofByHash ==
    /\ pc = "proved"
    /\ argKey \in HashKeys
    /\ \E r \in Roots : Enter("account", r)

\* VerifyStorageProofByHash(storageRoot, keyHash, proof), storageRoot neither
\* the empty root nor the zero digest.
VerifyStorageProofByHash ==
    /\ pc = "proved"
    /\ argKey \in HashKeys
    /\ \E r \in Roots :
          /\ ~(r = EmptyRoot \/ r = ZeroHash)
          /\ Enter("storage", r)

\* VerifyStorageProofByHash with the empty root or the zero digest.
VerifyStorageProofEmpty(claimed) ==
    /\ pc = "proved"
    /\ argKey \in HashKeys
    /\ \E r \in Roots \cup {ZeroHash, EmptyRoot} :
          /\ r = EmptyRoot \/ r = ZeroHash
          /\ root' = r
          /\ out' = StorageEmptyCheck(r, proof, claimed)
    /\ caller' = "storage"
    /\ claim' = claimed
    /\ pc' = "done"
    /\ UNCHANGED <<argKey, fromLevel, proof, origin, orig>>
    /\ UNCHANGED trieVars
    /\ UNCHANGED loopVars

\* One round of verifyProof's loop.
Step ==
    /\ pc = "verify"
    /\ LET r == CASE node.t = "full" -> StepFullNode(node, key, nextIndex, used, proofs)
                  [] node.t = "short" -> StepShortNode(node, key, nextIndex, used, proofs)
                  [] node.t = "hash" -> StepHashNode(node, key, nextIndex, used, proofs)
                  [] node.t = "value" -> StepValueNode(node, key, nextIndex, used, proofs)
                  [] OTHER -> StepDefault(node, key, nextIndex, used, proofs)
       IN  /\ node' = r.node
           /\ key' = r.key
           /\ nextIndex' = r.nextIndex
           /\ used' = r.used
           /\ ret' = r.ret
           /\ consumed' = IF r.nextIndex # nextIndex
                          THEN Append(consumed, used[node.hash].index)
                          ELSE consumed
           /\ looked' = IF node.t = "hash" /\ node.hash \in DOMAIN proofs
                        THEN looked \cup {LastIndex(Digests(proof), node.hash)}
                        ELSE looked
           /\ pc' = IF r.ret = NoResult THEN "verify" ELSE "returned"
    /\ steps' = steps + 1
    /\ UNCHANGED proofs
    /\ UNCHANGED <<argKey, fromLevel, proof, origin, orig, caller, root, claim, out>>
    /\ UNCHANGED trieVars

\* verifyProof returns to its caller.
VerifyProofReturn ==
    /\ pc = "returned"
    /\ caller = "verifyProof"
    /\ out' = IF ret.kind = "error" THEN ErrVerify ELSE OK
    /\ pc' = "done"
    /\ UNCHANGED <<argKey, fromLevel, proof, origin, orig, caller, root, claim>>
    /\ UNCHANGED trieVars
    /\ UNCHANGED loopVars

\* VerifyAccountProofByHash from verifyProof's return on.
AccountReturn(claimed) ==
    /\ pc = "returned"
    /\ caller = "account"
    /\ claim' = claimed
    /\ out' = AccountCheck(ret, claimed)
    /\ pc' = "done"
    /\ UNCHANGED <<argKey, fromLevel, proof, origin, orig, caller, root>>
    /\ UNCHANGED trieVars
    /\ UNCHANGED loopVars

\* VerifyStorageProofByHash from verifyProof's return on.
StorageReturn(claimed) ==
    /\ pc = "returned"
    /\ caller = "storage"
    /\ claim' = claimed
    /\ out' = StorageCheck(ret, claimed)
    /\ pc' = "done"
    /\ UNCHANGED <<argKey, fromLevel, proof, origin, orig, caller, root>>
    /\ UNCHANGED trieVars
    /\ UNCHANGED loopVars

\* ------------------------------------------------------------- changed lists

RemoveAt(s, i) == SubSeq(s, 1, i - 1) \o SubSeq(s, i + 1, Len(s))
InsertAt(s, j, e) == SubSeq(s, 1, j - 1) \o <<e>> \o SubSeq(s, j, Len(s))
\* The orders of n entries, for the lists Prove returns (one entry a nibble
\* of the longest key, and one more).
Orders ==
    [n \in 0..5 |-> {f \in [1..n -> 1..n] : \A i, j \in 1..n : f[i] = f[j] => i = j}]

\* The lists one change away from the list s, by the kind of change.
Changed(s, how) ==
    CASE how = "removed" -> {RemoveAt(s, i) : i \in 1..Len(s)}
      [] how = "duplicated" ->
            {InsertAt(s, j, s[i]) : i \in 1..Len(s), j \in 1..(Len(s) + 1)}
      [] how = "reordered" ->
            {Computed([i \in 1..Len(s) |-> s[f[i]]]) : f \in Orders[Len(s)]} \ {s}
      [] how = "appended" -> {Append(s, e) : e \in SubmitEntries}

\* A list that Prove produced and verifyProof accepted is changed and handed
\* over again.
Tamper(how) ==
    /\ pc = "done"
    /\ caller = "verifyProof"
    /\ origin = "prove"
    /\ fromLevel = 0
    /\ ret.kind \in {"value", "absent"}
    /\ \E p \in Changed(proof, how) : proof' = p
    /\ origin' = how
    /\ orig' = ret
    /\ pc' = "proved"
    /\ caller' = "none"
    /\ root' = ZeroHash
    /\ node' = NilNode
    /\ key' = <<>>
    /\ nextIndex' = 0
    /\ proofs' = EmptyMap
    /\ used' = EmptyMap
    /\ ret' = NoResult
    /\ consumed' = <<>>
    /\ looked' = {}
    /\ steps' = 0
    /\ claim' = NoClaim
    /\ out' = "none"
    /\ UNCHANGED <<argKey, fromLevel>>
    /\ UNCHANGED trieVars

\* The call is over; the trie stays.
Reset ==
    /\ pc = "done"
    /\ pc' = "idle"
    /\ argKey' = <<>>
    /\ fromLevel' = 0
    /\ proof' = <<>>
    /\ origin' = "none"
    /\ orig' = NoResult
    /\ caller' = "none"
    /\ root' = ZeroHash
    /\ node' = NilNode
    /\ key' = <<>>
    /\ nextIndex' = 0
    /\ proofs' = EmptyMap
    /\ used' = EmptyMap
    /\ ret' = NoResult
    /\ consumed' = <<>>
    /\ looked' = {}
    /\ steps' = 0
    /\ claim' = NoClaim
    /\ out' = "none"
    /\ UNCHANGED trieVars

Next ==
    \/ \E k \in Keys, v \in Values : Update(k, v)
    \/ \E k \in Keys, level \in 0..MaxFromLevel, storage \in BOOLEAN : ProveCall(k, level, storage)
    \/ \E k \in Keys : Submit(k)
    \/ VerifyProofCall
    \/ VerifyAccountProofByHash
    \/ VerifyStorageProofByHash
    \/ \E c \in StorageClaims : VerifyStorageProofEmpty(c)
    \/ Step
    \/ VerifyProofReturn
    \/ \E c \in Claims : AccountReturn(c)
    \/ \E c \in StorageClaims : StorageReturn(c)
    \/ \E how \in {"removed", "duplicated", "reordered", "appended"} : Tamper(how)
    \/ Reset

Spec == Init /\ [][Next]_vars

\* ---------------------------------------------------------------- digests

\* No two entries of the proof list with different bytes have the same
\* digest, and no entry of other bytes has the digest of the empty trie.
DigestsDistinct ==
    LET hs == Digests(proof)
        bs == Computed([i \in 1..Len(proof) |-> Flatten(proof[i])])
    IN  \A i \in 1..Len(proof) :
            /\ \A j \in 1..Len(proof) : hs[i] = hs[j] => bs[i] = bs[j]
            /\ hs[i] = EmptyRoot => bs[i] = <<128>>

\* ------------------------------------------------------------------ claims

\* The list of the state is one Prove(argKey, 0) returned for the trie, and
\* verifyProof has run on it with the trie's root.
ProvedAndVerified ==
    /\ pc = "done"
    /\ caller = "verifyProof"
    /\ origin = "prove"
    /\ fromLevel = 0
    /\ root = RootHash(RootNode)

\* C1: verifyProof on the trie's root, a key and the list Prove(key, 0)
\* returned gives the value the trie stores for the key, and absence when it
\* stores none, for every trie and every key.
C1_Soundness ==
    ProvedAndVerified =>
        IF argKey \in DOMAIN content
        THEN ret.kind = "value" /\ BytesEqual(ret.value, content[argKey])
        ELSE ret = Absent

\* C2: the entries verifyProof resolves are those at the list indices
\* 0, 1, 2, ... in that order, each once, nextIndex counting them; and a
\* round that resolves a hash recorded at another index than nextIndex ends
\* the run with the out-of-order error and resolves nothing.
C2_ConsumedInOrder ==
    /\ nextIndex = Len(consumed)
    /\ \A i \in 1..Len(consumed) : consumed[i] = i - 1

C2_OutOfOrderEnds ==
    (/\ pc = "verify"
     /\ node.t = "hash"
     /\ node.hash \in DOMAIN proofs
     /\ node.hash \in DOMAIN used
     /\ used[node.hash].index # nextIndex)
        => (/\ pc' = "returned"
            /\ ret' = Error(ErrOutOfOrder)
            /\ consumed' = consumed
            /\ nextIndex' = nextIndex)

C2_ConsumptionOrder == []C2_ConsumedInOrder /\ [][C2_OutOfOrderEnds]_vars

\* C2 happens: a run has resolved the entries 0 and 1 and then met a hash
\* recorded at another index than 2.
C2_Witness ==
    /\ pc = "returned"
    /\ ret = Error(ErrOutOfOrder)
    /\ consumed = <<0, 1>>

\* C3: a list verifyProof accepts, as proving a value or as proving absence,
\* with one more decodable entry appended that the run never looks up, makes
\* verifyProof return the unused-elements error.
C3_ExtraneousRejected ==
    (/\ pc = "done"
     /\ caller = "verifyProof"
     /\ origin = "appended"
     /\ out # ErrProofMap
     /\ (Len(proof) - 1) \notin looked)
        => ret = Error(ErrUnused)

\* C4: a list Prove returned and verifyProof accepts, with one entry removed,
\* one entry duplicated or its entries in another order, makes verifyProof
\* return an error.
C4_TamperRejected ==
    (/\ pc = "done"
     /\ caller = "verifyProof"
     /\ origin \in {"removed", "duplicated", "reordered"})
        => out # OK

\* C5: for a trie that is not empty and a key it does not store, of one
\* nibble or more, verifyProof on the list Prove(key, 0) returned gives
\* absence and no error.
C5_AbsenceProof ==
    (/\ ProvedAndVerified
     /\ RootNode # NilNode
     /\ argKey \notin DOMAIN content
     /\ Len(argKey) > 0)
        => ret = Absent

\* C6: VerifyStorageProofByHash with a root that is neither the empty root
\* nor the zero digest, on a list that verifies to absence, succeeds only
\* for the claimed value zero.
C6_AbsentSlotZero ==
    (/\ pc = "done"
     /\ caller = "storage"
     /\ root # EmptyRoot
     /\ root # ZeroHash
     /\ ret = Absent)
        => (out = OK => claim.Value = 0)

\* C7: VerifyAccountProofByHash on a list that verifies to absence succeeds
\* exactly when the claimed nonce and balance are zero, the claimed storage
\* root is the empty root or the zero digest, and the claimed code hash is
\* the zero digest.
C7_AbsentAccount ==
    (/\ pc = "done"
     /\ caller = "account"
     /\ ret = Absent)
        => (out = OK <=> /\ claim.Nonce = 0
                         /\ claim.Balance = 0
                         /\ claim.StorageHash \in {EmptyRoot, ZeroHash}
                         /\ claim.CodeHash = ZeroHash)

\* C8: for the empty trie, its root the empty root and the list the one
\* Prove returned, the account claim of nonce 0, balance 0, the empty storage
\* root and the empty code hash is accepted.
C8_ScenarioB ==
    (/\ pc = "done"
     /\ caller = "account"
     /\ origin = "prove"
     /\ content = EmptyMap
     /\ root = EmptyRoot
     /\ claim = AccProofResult(0, 0, EmptyRoot, EmptyCodeHash))
        => out = OK

\* Every entry of the list is the canonical empty encoding for the root r:
\* the byte 0x80 for the empty root, no bytes for the zero digest.
CanonicalEmpty(r, entries) ==
    \A i \in 1..Len(entries) :
        IF r = EmptyRoot
        THEN Flatten(entries[i]) = <<128>>
        ELSE Flatten(entries[i]) = <<>>

\* C9: VerifyStorageProofByHash with the empty root or the zero digest runs
\* no round of the traversal, and succeeds exactly when the claimed value is
\* zero and every entry is the canonical empty encoding for that root; a
\* claimed value that is not zero is rejected.
C9_EmptyStorageRoot ==
    (/\ pc = "done"
     /\ caller = "storage"
     /\ root \in {EmptyRoot, ZeroHash})
        => /\ steps = 0
           /\ ret = NoResult
           /\ out = OK <=> (claim.Value = 0 /\ CanonicalEmpty(root, proof))
           /\ claim.Value # 0 => out = ErrEmptyNonZero

\* C9 happens: a list of canonical entries is accepted for the empty root
\* and the claimed value zero.
C9_Witness ==
    /\ pc = "done"
    /\ caller = "storage"
    /\ root = EmptyRoot
    /\ Len(proof) > 0
    /\ claim.Value = 0
    /\ out = OK

\* C10: the list Prove(key, 0) returns is never empty, and its first entry
\* is the encoding of the root node.
C10_RootIncluded ==
    (/\ pc = "proved"
     /\ origin = "prove"
     /\ fromLevel = 0)
        => /\ proof # <<>>
           /\ RootNode # NilNode
                 => BytesEqual(proof[1], Enc(<<hashChildren(RootNode)>>))

\* The trie of scenario A: key 0x01 with the value "a", key 0x02 with "b".
ScenarioA == (<<1>> :> ValA) @@ (<<2>> :> ValB)

\* C11: in the trie of scenario A, Prove(0x01, 0) returns a list of exactly
\* one entry, and verifyProof with the trie's root, the key 0x01 and that
\* list returns the value "a" without error.
C11_ScenarioA ==
    (/\ ProvedAndVerified
     /\ content = ScenarioA
     /\ argKey = <<1>>)
        => /\ Len(proof) = 1
           /\ ret.kind = "value"
           /\ BytesEqual(ret.value, ValA)

\* The nesting depth of a decoded entry: the most Leaf/Extension and Branch
\* nodes on one way down from it through embedded nodes.
RECURSIVE NodeDepth(_)
NodeDepth(n) ==
    CASE n.t = "short" -> 1 + NodeDepth(n.Val)
      [] n.t = "full" ->
            LET ds == {NodeDepth(n.Children[i]) : i \in 1..17}
            IN  1 + (CHOOSE d \in ds : \A e \in ds : e <= d)
      [] OTHER -> 0

\* The nesting depths of the entries with the digests hs, added up.
RECURSIVE SumDepths(_)
SumDepths(hs) ==
    IF hs = {} THEN 0
    ELSE LET h == CHOOSE x \in hs : TRUE
         IN  NodeDepth(proofs[h]) + SumDepths(hs \ {h})

\* The rounds verifyProof's loop may take: one for each nibble of the key
\* (the terminator with them), one for each entry, one for each level of
\* nesting, and the round that returns.
StepBound ==
    Len(keybytesToHex(argKey)) + Len(proof) + SumDepths(DOMAIN proofs) + 1

\* C12: verifyProof ends on every root, key and list of decodable entries:
\* every round of its loop counts, the rounds taken never exceed the bound
\* that the key's nibbles, the entries and their nesting give, and when it
\* has returned the result is a value, absence or an error.
C12_StepsBounded ==
    /\ pc = "verify" => steps < StepBound
    /\ pc = "returned" => /\ steps <= StepBound
                          /\ ret.kind \in {"value", "absent", "error"}

C12_RoundCounts ==
    pc = "verify" => /\ pc' \in {"verify", "returned"}
                     /\ steps' = steps + 1
                     /\ proof' = proof
                     /\ argKey' = argKey
                     /\ proofs' = proofs

C12_Terminates == []C12_StepsBounded /\ [][C12_RoundCounts]_vars

\* C12 happens: a run over an entry with an empty path fragment has ended.
C12_Witness ==
    /\ pc = "returned"
    /\ proof = <<NilExtension>>
    /\ root = Keccak256Hash(NilExtension)
    /\ steps = 3

\* The two situations of absence, in a state where the loop is about to take
\* a round: a Branch without a child for the next nibble, and a
\* Leaf/Extension with a path fragment no longer than the key left that is
\* not the key's prefix.
AtBranchWithoutChild ==
    /\ node.t = "full"
    /\ Len(key) > 0
    /\ node.Children[key[1] + 1] = NilNode

AtFragmentMismatch ==
    /\ node.t = "short"
    /\ Len(node.Key) <= Len(key)
    /\ node.Key # SubSeq(key, 1, Len(node.Key))

\* The ways the traversal stops short that are errors: a hash that is not
\* among the entries, a Branch with no key left, a path fragment longer than
\* the key left, a value with key left, and no node at all (the child of an
\* Extension that has none).
AtDeadEnd ==
    \/ node.t = "hash" /\ node.hash \notin DOMAIN proofs
    \/ node.t = "full" /\ Len(key) = 0
    \/ node.t = "short" /\ Len(node.Key) > Len(key)
    \/ node.t = "value" /\ Len(key) # 0
    \/ node = NilNode

\* C13: a round of verifyProof returns absence exactly in the two situations
\* of absence, and at every dead end it returns an error.
C13_RoundAbsence ==
    pc = "verify" =>
        /\ (pc' = "returned" /\ ret' = Absent)
              <=> (AtBranchWithoutChild \/ AtFragmentMismatch)
        /\ AtDeadEnd => (pc' = "returned" /\ ret'.kind = "error")

C13_AbsenceOnlyTwoWays == [][C13_RoundAbsence]_vars

\* C13 happens: verifyProof has returned absence at a Branch without a child
\* for the key's nibble.
C13_Witness ==
    /\ pc = "returned"
    /\ ret = Absent
    /\ node = NilNode
    /\ steps >= 2

\* C14: when verifyProof has returned a value for a list of n entries, the
\* entries have n digests, no two the same, and the run has resolved all n,
\* entry i the i-th: no entry is left unused, none was not looked up.
C14_ValueConsumesAll ==
    (/\ pc \in {"returned", "done"}
     /\ ret.kind = "value")
        => LET n == Len(proof)
               hs == Digests(proof)
           IN  /\ \A i, j \in 1..n : hs[i] = hs[j] => i = j
               /\ consumed = Computed([i \in 1..n |-> i - 1])
               /\ nextIndex = n
               /\ DOMAIN used = {}
               /\ looked = 0..(n - 1)

\* C14 happens: verifyProof has returned a value for a list of several
\* entries.
C14_Witness ==
    /\ pc = "returned"
    /\ ret.kind = "value"
    /\ Len(proof) >= 3

====
